---- MODULE Spec2Model ----
(***************************************************************************)
(* Shor's algorithm for N = 15 (shors-algorithm-implementation.py):        *)
(* the modular-exponentiation oracle c_amod15, the inverse transform       *)
(* qft_dagger, the circuit builder create_shors_circuit, the period        *)
(* extraction of find_period and the orchestrator shor_algorithm.          *)
(*                                                                         *)
(* A circuit is a sequence of gate records [gate, qubits, arg] in the      *)
(* order the code appends them; an appended sub-circuit is one record      *)
(* that names the sub-circuit by the arguments it was built from.  The     *)
(* execution backend is a black box: it returns any histogram over the     *)
(* counting register whose counts are positive and sum to the shot count.  *)
(***************************************************************************)
EXTENDS Integers, Sequences, FiniteSets

VARIABLES pc, N, a, n, counting_qubits, shots, qc, counts, measured_phases,
          r, result, backend_calls, power, x, U, reg, ip

vars == <<pc, N, a, n, counting_qubits, shots, qc, counts, measured_phases,
          r, result, backend_calls, power, x, U, reg, ip>>

(***************************************************************************)
(* Bounds of the model.                                                    *)
(***************************************************************************)
MaxPower == 4
MaxCountingQubits == 3
MinN == 14
MaxN == 21
OrchShots == 1
PeriodShots == 6
IdealShots == 6

(***************************************************************************)
(* Program constants.                                                      *)
(***************************************************************************)
WorkQubits == 4
DefaultCountingQubits == 8
TopPhases == 5

\* `return None` of find_period: a period is a positive denominator, never 0
None == 0

(***************************************************************************)
(* Arithmetic helpers.                                                     *)
(***************************************************************************)
RECURSIVE Pow2(_)
Pow2(k) == IF k = 0 THEN 1 ELSE 2 * Pow2(k - 1)

RECURSIVE gcd(_, _)
gcd(u, v) == IF v = 0 THEN u ELSE gcd(v, u % v)

\* a ** e % m of Python's unbounded integers, reduced at every step
RECURSIVE PowMod(_, _, _)
PowMod(b, e, m) == IF e = 0 THEN 1 % m ELSE (b * PowMod(b, e - 1, m)) % m

Abs(i) == IF i < 0 THEN -i ELSE i

(***************************************************************************)
(* Gates.                                                                  *)
(***************************************************************************)
Gate(g, qs, ar) == [gate |-> g, qubits |-> qs, arg |-> ar]

SwapGate(i, j) == Gate("swap", <<i, j>>, <<>>)
XGate(q) == Gate("x", <<q>>, <<>>)
HGate(q) == Gate("h", <<q>>, <<>>)
MeasureGate(q, cbit) == Gate("measure", <<q>>, <<cbit>>)

RECURSIVE Range(_, _)
\* list(range(lo, hi))
Range(lo, hi) == IF lo >= hi THEN <<>> ELSE <<lo>> \o Range(lo + 1, hi)

(***************************************************************************)
(* c_amod15                                                                *)
(***************************************************************************)
AdmissibleBases == {2, 4, 7, 8, 11, 13}

\* (a variant whose bases 4 and 11 rotate three lines instead of transposing two)
OracleIterationRotating(b) ==
    (IF b \in {2, 13} THEN <<SwapGate(0, 1), SwapGate(1, 2), SwapGate(2, 3)>> ELSE <<>>)
    \o (IF b \in {7, 8} THEN <<SwapGate(2, 3), SwapGate(1, 2), SwapGate(0, 1)>> ELSE <<>>)
    \o (IF b \in {4, 11} THEN <<SwapGate(0, 1), SwapGate(1, 2), SwapGate(2, 3)>> ELSE <<>>)
    \o (IF b \in {7, 11, 13} THEN <<XGate(0), XGate(1), XGate(2), XGate(3)>> ELSE <<>>)

\* the body of the loop `for iteration in range(power)`
OracleIteration(b) ==
    (IF b \in {2, 13} THEN <<SwapGate(0, 1), SwapGate(1, 2), SwapGate(2, 3)>> ELSE <<>>)
    \o (IF b \in {7, 8} THEN <<SwapGate(2, 3), SwapGate(1, 2), SwapGate(0, 1)>> ELSE <<>>)
    \o (IF b \in {4, 11} THEN <<SwapGate(1, 3), SwapGate(0, 2)>> ELSE <<>>)
    \o (IF b \in {7, 11, 13} THEN <<XGate(0), XGate(1), XGate(2), XGate(3)>> ELSE <<>>)

\* the circuit U of an admissible base: the gates of the loop body, `p` times over
c_amod15(b, p) ==
    LET body == OracleIteration(b)
    IN [i \in 1..(p * Len(body)) |-> body[((i - 1) % Len(body)) + 1]]

\* the work register as its four bits, qubit 0 first (the least significant)
RECURSIVE BitsOf(_, _)
BitsOf(v, k) == IF k = 0 THEN <<>> ELSE <<v % 2>> \o BitsOf(v \div 2, k - 1)

RegValue(bits) == bits[1] + 2 * bits[2] + 4 * bits[3] + 8 * bits[4]

\* the action of one swap or bit-flip on a computational-basis state
ApplyGate(g, bits) ==
    IF g.gate = "swap"
    THEN [bits EXCEPT ![g.qubits[1] + 1] = bits[g.qubits[2] + 1],
                      ![g.qubits[2] + 1] = bits[g.qubits[1] + 1]]
    ELSE [bits EXCEPT ![g.qubits[1] + 1] = 1 - bits[g.qubits[1] + 1]]

(***************************************************************************)
(* create_shors_circuit                                                    *)
(***************************************************************************)
\* power = 2**(counting_qubits-q-1) with the exponent of q reversed
OraclePowerReversed(q, c) == Pow2(q)

\* power = 2**(counting_qubits-q-1)
OraclePower(q, c) == Pow2(c - q - 1)

\* qc.append(c_amod15(a, power).control(), [q] + list(range(c, c+4)))
ControlledU(b, q, c) ==
    Gate("c_amod15.control", <<q>> \o Range(c, c + WorkQubits), <<b, OraclePower(q, c)>>)

\* qc.append(qft_dagger(c), range(c))
InverseQft(c) == Gate("qft_dagger", Range(0, c), <<c>>)

RECURSIVE HadamardLayer(_, _)
HadamardLayer(q, c) == IF q >= c THEN <<>> ELSE <<HGate(q)>> \o HadamardLayer(q + 1, c)

RECURSIVE ControlledLayer(_, _, _)
ControlledLayer(b, q, c) ==
    IF q >= c THEN <<>> ELSE <<ControlledU(b, q, c)>> \o ControlledLayer(b, q + 1, c)

RECURSIVE MeasureLayer(_, _)
\* qc.measure(range(c), range(c))
MeasureLayer(q, c) ==
    IF q >= c THEN <<>> ELSE <<MeasureGate(q, q)>> \o MeasureLayer(q + 1, c)

\* the circuit returned for an admissible base
create_shors_circuit(b, c) ==
    HadamardLayer(0, c) \o <<XGate(c)>> \o ControlledLayer(b, 0, c)
    \o <<InverseQft(c)>> \o MeasureLayer(0, c)

(***************************************************************************)
(* The execution backend: execute(qc, backend, shots).result().get_counts() *)
(***************************************************************************)
\* a measured bitstring: one character per counting qubit, the highest first
BitStrings(c) == [1..c -> {0, 1}]

RECURSIVE TotalCount(_, _)
\* the shots counted in the first k entries of a histogram
TotalCount(h, k) == IF k = 0 THEN 0 ELSE TotalCount(h, k - 1) + h[k][2]

\* the bitstrings that are keys of a histogram
KeysOf(h) == {h[i][1] : i \in 1..Len(h)}

(***************************************************************************)
(* find_period: the post-processing of the histogram                       *)
(***************************************************************************)
RECURSIVE IntOfBits(_, _)
\* int(output, 2) of the first k characters
IntOfBits(bits, k) == IF k = 0 THEN 0 ELSE 2 * IntOfBits(bits, k - 1) + bits[k]

\* Fraction(decimal / 2**c): the dyadic float is exact, the fraction is reduced
PhaseOf(decimal, c) ==
    LET g == gcd(decimal, Pow2(c)) IN <<decimal \div g, Pow2(c) \div g>>

RECURSIVE MeasuredPhases(_, _, _)
\* for output in counts: measured_phases.append((phase, counts[output]))
MeasuredPhases(h, i, c) ==
    IF i > Len(h) THEN <<>>
    ELSE <<<<PhaseOf(IntOfBits(h[i][1], c), c), h[i][2]>>>> \o MeasuredPhases(h, i + 1, c)

RECURSIVE InsertByCount(_, _, _)
\* puts e after every entry whose count is at least its own
InsertByCount(e, sorted, i) ==
    IF i > Len(sorted) THEN sorted \o <<e>>
    ELSE IF sorted[i][2] < e[2]
         THEN SubSeq(sorted, 1, i - 1) \o <<e>> \o SubSeq(sorted, i, Len(sorted))
         ELSE InsertByCount(e, sorted, i + 1)

RECURSIVE SortByCount(_, _)
\* measured_phases.sort(key=lambda x: x[1], reverse=True): descending and stable
SortByCount(l, k) ==
    IF k = 0 THEN <<>> ELSE InsertByCount(l[k], SortByCount(l, k - 1), 1)

RECURSIVE ConvergentLoop(_, _, _, _, _, _, _)
\* the loop of Fraction.limit_denominator: <<p0, q0, p1, q1, d>> at its break
ConvergentLoop(p0, q0, p1, q1, num, d, max_denominator) ==
    LET quot == num \div d
        q2 == q0 + quot * q1
    IN IF q2 > max_denominator THEN <<p0, q0, p1, q1, d>>
       ELSE ConvergentLoop(p1, q1, p0 + quot * p1, q2, d, num - quot * d, max_denominator)

\* Fraction(phase).limit_denominator(max_denominator), as <<numerator, denominator>>
limit_denominator(phase, max_denominator) ==
    IF phase[2] <= max_denominator THEN phase
    ELSE LET t == ConvergentLoop(0, 1, 1, 0, phase[1], phase[2], max_denominator)
             k == (max_denominator - t[2]) \div t[4]
             b1n == t[1] + k * t[3]
             b1d == t[2] + k * t[4]
             g == gcd(b1n, b1d)
             bound1 == <<b1n \div g, b1d \div g>>
             bound2 == <<t[3], t[4]>>
         IN IF Abs(bound2[1] * phase[2] - phase[1] * bound2[2]) * bound1[2]
                 <= Abs(bound1[1] * phase[2] - phase[1] * bound1[2]) * bound2[2]
            THEN bound2 ELSE bound1

\* (a variant without the test of a**r % n == 1)
IsValidPeriodNoUnit(cand, b, m) == cand % 2 = 0 /\ PowMod(b, cand \div 2, m) # m - 1

\* (a variant without the test of r % 2 == 0)
IsValidPeriodNoParity(cand, b, m) ==
    PowMod(b, cand \div 2, m) # m - 1 /\ PowMod(b, cand, m) = 1

\* r % 2 == 0 and a**(r//2) % n != n - 1 and a**r % n == 1
IsValidPeriod(cand, b, m) ==
    /\ cand % 2 = 0
    /\ PowMod(b, cand \div 2, m) # m - 1
    /\ PowMod(b, cand, m) = 1

\* (a variant that looks at one more phase than measured_phases[:5])
TopSliceSix(sorted) == SubSeq(sorted, 1, IF Len(sorted) < TopPhases + 1 THEN Len(sorted) ELSE TopPhases + 1)

\* measured_phases[:5]
TopSlice(sorted) == SubSeq(sorted, 1, IF Len(sorted) < TopPhases THEN Len(sorted) ELSE TopPhases)

RECURSIVE FirstValidPeriod(_, _, _, _)
\* for phase, _ in measured_phases[:5]: the first valid denominator, else None
FirstValidPeriod(top, i, b, m) ==
    IF i > Len(top) THEN None
    ELSE LET cand == limit_denominator(top[i][1], m)[2]
         IN IF IsValidPeriod(cand, b, m) THEN cand
            ELSE FirstValidPeriod(top, i + 1, b, m)

(***************************************************************************)
(* shor_algorithm: what a call returns                                     *)
(***************************************************************************)
\* a returned value or a raised exception, tagged with the line it leaves from
Pair(f1, f2, line) == [kind |-> "pair", factors |-> <<f1, f2>>, message |-> "", at |-> line]
Failure(msg, line) == [kind |-> "failure", factors |-> <<>>, message |-> msg, at |-> line]
Raised(msg, line) == [kind |-> "raised", factors |-> <<>>, message |-> msg, at |-> line]
NoResult == [kind |-> "none", factors |-> <<>>, message |-> "", at |-> 0]

\* (a variant that takes both factors from a**(r//2) - 1)
ComputeFactorsSameSign(b, per, M) ==
    LET half == PowMod(b, per \div 2, M)
    IN Pair(gcd((half + M - 1) % M, M), gcd((half + M - 1) % M, M), 138)

\* factor1 = gcd(a**(r//2) - 1, N), factor2 = gcd(a**(r//2) + 1, N); the power
\* is an unbounded integer and gcd(y, N) = gcd(y % N, N)
ComputeFactors(b, per, M) ==
    LET half == PowMod(b, per \div 2, M)
    IN Pair(gcd((half + M - 1) % M, M), gcd((half + 1) % M, M), 138)

\* lines 123-138: the checks on the period that find_period returned
ValidatePeriod(b, per, M) ==
    IF per = None THEN Failure("Failed to find period, try again.", 124)
    ELSE IF per % 2 # 0 THEN Failure("r is odd, try again with a different a.", 128)
    ELSE IF PowMod(b, per \div 2, M) = M - 1
         THEN Failure("a^(r/2) mod N = -1, try again with a different a.", 132)
    ELSE ComputeFactors(b, per, M)

(***************************************************************************)
(* Actions of find_period                                                  *)
(***************************************************************************)
orch_vars == <<N, a>>
oracle_vars == <<power, x, U, reg, ip>>
period_vars == <<n, counting_qubits, shots>>

\* line 77, for a base the oracle refuses: c_amod15 raises at the first append
BuildCircuitRaises ==
    /\ pc = "find_period"
    /\ a \notin AdmissibleBases
    /\ pc' = "raised"
    /\ result' = Raised("'a' must be 2, 4, 7, 8, 11 or 13", 14)
    /\ UNCHANGED <<orch_vars, oracle_vars, period_vars, qc, counts,
                   measured_phases, r, backend_calls>>

\* line 77, for an admissible base
BuildCircuit ==
    /\ pc = "find_period"
    /\ a \in AdmissibleBases
    /\ qc' = create_shors_circuit(a, counting_qubits)
    /\ pc' = "execute"
    /\ UNCHANGED <<orch_vars, oracle_vars, period_vars, counts, measured_phases,
                   r, result, backend_calls>>

\* line 81: the one call of the backend for this circuit
Execute ==
    /\ pc = "execute"
    /\ backend_calls' = backend_calls + 1
    /\ counts' = <<>>
    /\ pc' = "backend"
    /\ UNCHANGED <<orch_vars, oracle_vars, period_vars, qc, measured_phases, r, result>>

\* the backend is a black box: it may count any bitstring it has not counted
\* yet, any number of the shots left, at any place of the dictionary's order
BackendOutcome ==
    /\ pc = "backend"
    /\ TotalCount(counts, Len(counts)) < shots
    /\ \E k \in BitStrings(counting_qubits) \ KeysOf(counts),
          m \in 1..(shots - TotalCount(counts, Len(counts))) :
           counts' = Append(counts, <<k, m>>)
    /\ UNCHANGED <<orch_vars, oracle_vars, period_vars, pc, qc, measured_phases, r,
                   result, backend_calls>>

\* line 82: get_counts() of a result whose counts sum to the shots
GetCounts ==
    /\ pc = "backend"
    /\ TotalCount(counts, Len(counts)) = shots
    /\ pc' = "post_processing"
    /\ UNCHANGED <<orch_vars, oracle_vars, period_vars, qc, counts, measured_phases, r,
                   result, backend_calls>>

\* lines 84-104: the phases, their ranking and the first valid candidate
PostProcess ==
    /\ pc = "post_processing"
    /\ measured_phases' =
           SortByCount(MeasuredPhases(counts, 1, counting_qubits), Len(counts))
    /\ r' = FirstValidPeriod(TopSlice(measured_phases'), 1, a, n)
    /\ pc' = "period_returned"
    /\ UNCHANGED <<orch_vars, oracle_vars, period_vars, qc, counts, result, backend_calls>>

(***************************************************************************)
(* Actions of shor_algorithm                                               *)
(***************************************************************************)
find_period_vars == <<n, counting_qubits, shots, qc, counts, measured_phases, r, backend_calls>>

\* lines 108-109
EvenCheck ==
    /\ pc = "shor_algorithm"
    /\ N % 2 = 0
    /\ result' = Pair(2, N \div 2, 109)
    /\ pc' = "returned"
    /\ UNCHANGED <<orch_vars, oracle_vars, find_period_vars>>

\* line 113: a = random.randint(2, N-1)
ChooseBase ==
    /\ pc = "shor_algorithm"
    /\ N % 2 # 0
    /\ a' \in 2..(N - 1)
    /\ pc' = "coprime_check"
    /\ UNCHANGED <<N, oracle_vars, find_period_vars, result>>

\* lines 116-118
CoprimeShortcut ==
    /\ pc = "coprime_check"
    /\ gcd(a, N) > 1
    /\ result' = Pair(gcd(a, N), N \div gcd(a, N), 118)
    /\ pc' = "returned"
    /\ UNCHANGED <<orch_vars, oracle_vars, find_period_vars>>

\* (a variant that goes on to find_period whatever gcd(a, N) is)
CallFindPeriodUnchecked ==
    /\ pc = "coprime_check"
    /\ n' = N
    /\ counting_qubits' = DefaultCountingQubits
    /\ shots' = OrchShots
    /\ pc' = "find_period"
    /\ UNCHANGED <<orch_vars, oracle_vars, qc, counts, measured_phases, r, result,
                   backend_calls>>

\* line 121: find_period(a, N) with its default register size and shot count
CallFindPeriod ==
    /\ pc = "coprime_check"
    /\ gcd(a, N) <= 1
    /\ n' = N
    /\ counting_qubits' = DefaultCountingQubits
    /\ shots' = OrchShots
    /\ pc' = "find_period"
    /\ UNCHANGED <<orch_vars, oracle_vars, qc, counts, measured_phases, r, result,
                   backend_calls>>

\* lines 123-138
Validate ==
    /\ pc = "period_returned"
    /\ N # 0
    /\ result' = ValidatePeriod(a, r, N)
    /\ pc' = "returned"
    /\ UNCHANGED <<orch_vars, oracle_vars, find_period_vars>>

Init ==
    /\ pc = "shor_algorithm"
    /\ N \in MinN..MaxN
    /\ a = 0 /\ n = 0 /\ counting_qubits = 0 /\ shots = 0
    /\ qc = <<>> /\ counts = <<>> /\ measured_phases = <<>>
    /\ r = None /\ result = NoResult /\ backend_calls = 0
    /\ power = 0 /\ x = 0 /\ U = <<>> /\ reg = <<>> /\ ip = 0

Next ==
    \/ EvenCheck
    \/ ChooseBase
    \/ CoprimeShortcut
    \/ CallFindPeriod
    \/ BuildCircuitRaises
    \/ BuildCircuit
    \/ Execute
    \/ BackendOutcome
    \/ GetCounts
    \/ PostProcess
    \/ Validate

Spec == Init /\ [][Next]_vars

(***************************************************************************)
(* find_period called on its own: find_period(a, n, counting_qubits, shots) *)
(***************************************************************************)
\* the calls explored, as <<a, n>>: a base the oracle refuses, a base of order 2
\* modulo 5 and the example base of order 4 modulo 15
PeriodCalls == {<<3, 15>>, <<4, 5>>, <<7, 15>>}
PeriodRegisterSizes == {2, 3}

InitPeriod ==
    /\ pc = "find_period"
    /\ N = 0
    /\ \E call \in PeriodCalls : a = call[1] /\ n = call[2]
    /\ counting_qubits \in PeriodRegisterSizes
    /\ shots = PeriodShots
    /\ qc = <<>> /\ counts = <<>> /\ measured_phases = <<>>
    /\ r = None /\ result = NoResult /\ backend_calls = 0
    /\ power = 0 /\ x = 0 /\ U = <<>> /\ reg = <<>> /\ ip = 0

NextPeriod ==
    \/ BuildCircuitRaises
    \/ BuildCircuit
    \/ Execute
    \/ BackendOutcome
    \/ GetCounts
    \/ PostProcess

SpecPeriod == InitPeriod /\ [][NextPeriod]_vars

(***************************************************************************)
(* find_period on the histograms of an ideal run: the keys are exactly the *)
(* phases k/order(a), in any order and with any positive counts            *)
(***************************************************************************)
Modulus == 15

\* the multiplicative order of b modulo 15
Order(b) == CHOOSE e \in 1..Modulus :
                /\ PowMod(b, e, Modulus) = 1
                /\ \A f \in 1..(e - 1) : PowMod(b, f, Modulus) # 1

\* format(decimal, '0cb'): the bitstring of a register value, highest bit first
BitsOfInt(decimal, c) == [i \in 1..c |-> (decimal \div Pow2(c - i)) % 2]

IdealKeys(b, c) == {BitsOfInt(k * (Pow2(c) \div Order(b)), c) : k \in 0..(Order(b) - 1)}

InitIdeal ==
    /\ pc = "find_period"
    /\ N = 0
    /\ a \in AdmissibleBases
    /\ n = Modulus
    /\ counting_qubits = DefaultCountingQubits
    /\ shots \in 1..IdealShots
    /\ qc = <<>> /\ counts = <<>> /\ measured_phases = <<>>
    /\ r = None /\ result = NoResult /\ backend_calls = 0
    /\ power = 0 /\ x = 0 /\ U = <<>> /\ reg = <<>> /\ ip = 0

\* the backend counts one of the ideal phases it has not counted yet
IdealOutcome ==
    /\ pc = "backend"
    /\ \E k \in IdealKeys(a, counting_qubits) \ KeysOf(counts),
          m \in 1..(shots - TotalCount(counts, Len(counts))) :
           counts' = Append(counts, <<k, m>>)
    /\ UNCHANGED <<orch_vars, oracle_vars, period_vars, pc, qc, measured_phases, r,
                   result, backend_calls>>

\* get_counts() once every ideal phase has been counted and no shot is left
IdealGetCounts ==
    /\ pc = "backend"
    /\ KeysOf(counts) = IdealKeys(a, counting_qubits)
    /\ TotalCount(counts, Len(counts)) = shots
    /\ pc' = "post_processing"
    /\ UNCHANGED <<orch_vars, oracle_vars, period_vars, qc, counts, measured_phases, r,
                   result, backend_calls>>

NextIdeal ==
    \/ BuildCircuit
    \/ Execute
    \/ IdealOutcome
    \/ IdealGetCounts
    \/ PostProcess

SpecIdeal == InitIdeal /\ [][NextIdeal]_vars

(***************************************************************************)
(* The oracle's circuit run on a computational-basis state of the work     *)
(* register                                                                *)
(***************************************************************************)
other_vars == <<N, n, counting_qubits, shots, qc, counts, measured_phases, r, backend_calls>>

InitOracle ==
    /\ pc = "c_amod15"
    /\ a \in 2..(Modulus - 1)
    /\ power \in 1..MaxPower
    /\ x \in 0..(Pow2(WorkQubits) - 1)
    /\ U = <<>> /\ reg = BitsOf(x, WorkQubits) /\ ip = 0
    /\ N = 0 /\ n = 0 /\ counting_qubits = 0 /\ shots = 0
    /\ qc = <<>> /\ counts = <<>> /\ measured_phases = <<>>
    /\ r = None /\ result = NoResult /\ backend_calls = 0

\* lines 13-14
OracleRaises ==
    /\ pc = "c_amod15"
    /\ a \notin AdmissibleBases
    /\ result' = Raised("'a' must be 2, 4, 7, 8, 11 or 13", 14)
    /\ pc' = "raised"
    /\ UNCHANGED <<other_vars, a, power, x, U, reg, ip>>

\* lines 16-34
OracleBuild ==
    /\ pc = "c_amod15"
    /\ a \in AdmissibleBases
    /\ U' = c_amod15(a, power)
    /\ pc' = "run"
    /\ UNCHANGED <<other_vars, a, power, x, reg, ip, result>>

\* the next gate of U acts on the register
OracleGate ==
    /\ pc = "run"
    /\ ip < Len(U)
    /\ reg' = ApplyGate(U[ip + 1], reg)
    /\ ip' = ip + 1
    /\ UNCHANGED <<other_vars, a, power, x, U, pc, result>>

OracleDone ==
    /\ pc = "run"
    /\ ip = Len(U)
    /\ pc' = "applied"
    /\ UNCHANGED <<other_vars, a, power, x, U, reg, ip, result>>

NextOracle == OracleRaises \/ OracleBuild \/ OracleGate \/ OracleDone

SpecOracle == InitOracle /\ [][NextOracle]_vars

(***************************************************************************)
(* create_shors_circuit, statement by statement                            *)
(***************************************************************************)
circuit_frame == <<N, a, n, counting_qubits, shots, counts, measured_phases, r,
                   backend_calls, power, x, U, reg>>

InitCircuit ==
    /\ pc = "hadamards"
    /\ a \in 2..(Modulus - 1)
    /\ n = Modulus
    /\ counting_qubits \in 1..MaxCountingQubits
    /\ qc = <<>> /\ ip = 0
    /\ N = 0 /\ shots = 0 /\ counts = <<>> /\ measured_phases = <<>>
    /\ r = None /\ result = NoResult /\ backend_calls = 0
    /\ power = 0 /\ x = 0 /\ U = <<>> /\ reg = <<>>

\* lines 55-56, one iteration
CircuitHadamard ==
    /\ pc = "hadamards"
    /\ ip < counting_qubits
    /\ qc' = Append(qc, HGate(ip))
    /\ ip' = ip + 1
    /\ UNCHANGED <<circuit_frame, pc, result>>

\* line 59
CircuitInitWork ==
    /\ pc = "hadamards"
    /\ ip = counting_qubits
    /\ qc' = Append(qc, XGate(counting_qubits))
    /\ ip' = 0
    /\ pc' = "controlled_u"
    /\ UNCHANGED <<circuit_frame, result>>

\* lines 63-64 for a base the oracle refuses
CircuitOracleRaises ==
    /\ pc = "controlled_u"
    /\ ip < counting_qubits
    /\ a \notin AdmissibleBases
    /\ result' = Raised("'a' must be 2, 4, 7, 8, 11 or 13", 14)
    /\ pc' = "raised"
    /\ UNCHANGED <<circuit_frame, qc, ip>>

\* lines 63-65, one iteration
CircuitControlledU ==
    /\ pc = "controlled_u"
    /\ ip < counting_qubits
    /\ a \in AdmissibleBases
    /\ qc' = Append(qc, ControlledU(a, ip, counting_qubits))
    /\ ip' = ip + 1
    /\ UNCHANGED <<circuit_frame, pc, result>>

\* line 68
CircuitInverseQft ==
    /\ pc = "controlled_u"
    /\ ip = counting_qubits
    /\ qc' = Append(qc, InverseQft(counting_qubits))
    /\ pc' = "measure"
    /\ UNCHANGED <<circuit_frame, ip, result>>

\* lines 71-73
CircuitMeasure ==
    /\ pc = "measure"
    /\ qc' = qc \o MeasureLayer(0, counting_qubits)
    /\ pc' = "built"
    /\ UNCHANGED <<circuit_frame, ip, result>>

NextCircuit ==
    \/ CircuitHadamard
    \/ CircuitInitWork
    \/ CircuitOracleRaises
    \/ CircuitControlledU
    \/ CircuitInverseQft
    \/ CircuitMeasure

SpecCircuit == InitCircuit /\ [][NextCircuit]_vars

(***************************************************************************)
(* Claims                                                                  *)
(***************************************************************************)

\* C1: for every admissible base a, power p >= 1 and register value x in
\* 1..14, the circuit c_amod15(a, p) maps x to (a^p * x) mod 15, qubit 0
\* being the least significant bit of the work register.
C1_OracleMultipliesByPower ==
    (pc = "applied" /\ x \in 1..14)
        => RegValue(reg) = (PowMod(a, power, 15) * x) % 15

\* C6: the circuit c_amod15(a, order(a)) leaves every one of the 16 values of
\* the work register unchanged.
C6_OrderManyTimesIsIdentity ==
    (pc = "applied" /\ power = Order(a)) => reg = BitsOf(x, 4)

C6_Witness == pc = "applied" /\ a = 7 /\ power = 4 /\ x = 0 /\ reg = <<0, 0, 0, 0>>

\* C9: the circuit built by create_shors_circuit(a, 15, c) is, in this order:
\* h on counting qubits 0..c-1, x on the first work qubit, for q = 0..c-1 one
\* controlled oracle with control q, the four work qubits as targets and power
\* 2^(c-q-1), the inverse transform on qubits 0..c-1, the measurement of
\* counting qubit i into classical bit i; no measurement or reset is ever put
\* on a work qubit.
C9_CircuitLayout ==
    LET c == counting_qubits IN
    /\ \A i \in 1..Len(qc) :
           qc[i].gate \in {"measure", "reset"} => \A k \in 1..Len(qc[i].qubits) : qc[i].qubits[k] < c
    /\ pc = "built" =>
        /\ Len(qc) = 3 * c + 2
        /\ \A q \in 0..(c - 1) :
            /\ qc[q + 1] = [gate |-> "h", qubits |-> <<q>>, arg |-> <<>>]
            /\ qc[c + 2 + q].gate = "c_amod15.control"
            /\ qc[c + 2 + q].qubits = <<q, c, c + 1, c + 2, c + 3>>
            /\ qc[c + 2 + q].arg = <<a, Pow2(c - q - 1)>>
            /\ qc[2 * c + 3 + q] = [gate |-> "measure", qubits |-> <<q>>, arg |-> <<q>>]
        /\ qc[c + 1] = [gate |-> "x", qubits |-> <<c>>, arg |-> <<>>]
        /\ qc[2 * c + 2].gate = "qft_dagger"
        /\ qc[2 * c + 2].qubits = [i \in 1..c |-> i - 1]

C9_Witness ==
    /\ pc = "built" /\ a = 7 /\ counting_qubits = 3
    /\ qc[5].arg = <<7, 4>> /\ qc[6].arg = <<7, 2>> /\ qc[7].arg = <<7, 1>>

\* C7: when N is even the result is (2, N/2), when N is odd and the drawn base
\* has g = gcd(a, N) > 1 the result is (g, N/g); in both cases no circuit is
\* ever built and the backend is never invoked.
C7_ShortcutsSkipQuantumStep ==
    /\ N % 2 = 0 =>
        /\ backend_calls = 0 /\ qc = <<>>
        /\ pc \in {"shor_algorithm", "returned"}
        /\ pc = "returned" => (result.kind = "pair" /\ result.factors = <<2, N \div 2>>)
    /\ (N % 2 = 1 /\ a # 0 /\ gcd(a, N) > 1) =>
        /\ backend_calls = 0 /\ qc = <<>>
        /\ pc \in {"coprime_check", "returned"}
        /\ pc = "returned" =>
               (result.kind = "pair" /\ result.factors = <<gcd(a, N), N \div gcd(a, N)>>)

C7_Witness ==
    /\ N = 21 /\ a = 3 /\ pc = "returned"
    /\ result.factors = <<3, 7>> /\ backend_calls = 0

\* C8: for odd N, every pair shor_algorithm returns (from the gcd shortcut or
\* from ComputeFactors) has product N; a = 7, r = 4, N = 15 gives 3 and 5.
C8_PairMultipliesToN ==
    /\ (N % 2 = 1 /\ result.kind = "pair") => result.factors[1] * result.factors[2] = N
    /\ (N = 15 /\ a = 7 /\ r = 4 /\ pc = "returned") =>
           (result.kind = "pair" /\ {result.factors[1], result.factors[2]} = {3, 5})

C8_Witness ==
    /\ N = 15 /\ a = 7 /\ r = 4 /\ pc = "returned"
    /\ result.at = 138 /\ result.factors = <<3, 5>>

\* C10: every period shor_algorithm receives from find_period is even and has
\* a^(r/2) mod N # N-1, so the only failure value shor_algorithm returns is
\* the one for 'no period found'.
C10_OnlyNoPeriodFailure ==
    /\ (N # 0 /\ pc \in {"period_returned", "returned"} /\ r # None) =>
           (r % 2 = 0 /\ PowMod(a, r \div 2, N) # N - 1)
    /\ result.kind = "failure" =>
           (r = None /\ result.message = "Failed to find period, try again.")

C10_Witness ==
    /\ N = 17 /\ a = 4 /\ pc = "returned" /\ r = 8 /\ result.kind = "pair"

\* C2: for N = 15, both members of a pair returned from the ComputeFactors
\* step are proper factors of N: greater than 1 and less than N.
C2_ComputedFactorsAreProper ==
    (N = 15 /\ pc = "returned" /\ result.kind = "pair" /\ result.at = 138) =>
        \A i \in 1..2 : result.factors[i] > 1 /\ result.factors[i] < N

\* C3: for N = 15, a call ends by returning a pair or a tagged failure value:
\* every base that passes the coprimality check is an admissible oracle base,
\* so the unsupported-base error is never raised.
C3_CoprimeBaseIsAdmissible ==
    N = 15 =>
        /\ pc = "find_period" => a \in {2, 4, 7, 8, 11, 13}
        /\ pc # "raised" /\ result.kind # "raised"

RECURSIVE BitstringValue(_, _, _)
\* the number a bitstring of c characters spells, highest bit first
BitstringValue(bits, i, c) ==
    IF i > c THEN 0 ELSE bits[i] * Pow2(c - i) + BitstringValue(bits, i + 1, c)

\* the entries of histogram h that rank before entry i: a greater count, or the
\* same count and an earlier place in the histogram
RankedBefore(h, i) ==
    {j \in 1..Len(h) : h[j][2] > h[i][2] \/ (h[j][2] = h[i][2] /\ j < i)}

\* the rank of entry i of h, from 1
RankOf(h, i) == Cardinality(RankedBefore(h, i)) + 1

\* f = <<p, q>> is a fraction in lowest terms with q <= m, and no fraction with
\* a denominator up to m is closer to ph = <<num, den>> (for a denominator q2
\* the nearest numerators are the two integers around num * q2 / den)
IsClosestFraction(f, ph, m) ==
    /\ f[2] \in 1..m
    /\ gcd(f[1], f[2]) = 1
    /\ \A q2 \in 1..m :
         \A p2 \in {(ph[1] * q2) \div ph[2], (ph[1] * q2) \div ph[2] + 1} :
             Abs(f[1] * ph[2] - ph[1] * f[2]) * q2 <= Abs(p2 * ph[2] - ph[1] * q2) * f[2]

\* the three conditions on a candidate period
MeetsPeriodConditions(cand, b, m) ==
    /\ \E h \in 1..m : cand = 2 * h /\ PowMod(b, h, m) # m - 1
    /\ PowMod(b, cand, m) = 1

\* C4: the phases are ranked by descending count, ties in the order of the
\* histogram; only the first five are examined; a phase's candidate is the
\* denominator of the closest fraction with denominator <= n; the result is
\* the candidate of the first examined phase that meets the three conditions,
\* and 'no period found' exactly when no examined phase has such a candidate.
C4_PeriodExtraction ==
    pc = "period_returned" =>
        LET c == counting_qubits
            examined == 1..(IF Len(counts) < 5 THEN Len(counts) ELSE 5)
            fraction(k) == limit_denominator(measured_phases[k][1], n)
            good == {k \in examined : MeetsPeriodConditions(fraction(k)[2], a, n)}
        IN /\ Len(measured_phases) = Len(counts)
           /\ \A i \in 1..Len(counts) :
                LET ranked == measured_phases[RankOf(counts, i)]
                IN /\ ranked[2] = counts[i][2]
                   /\ ranked[1][1] * Pow2(c)
                          = BitstringValue(counts[i][1], 1, c) * ranked[1][2]
           /\ \A k \in examined : IsClosestFraction(fraction(k), measured_phases[k][1], n)
           /\ good = {} => r = None
           /\ good # {} =>
                \E k \in good : r = fraction(k)[2] /\ \A j \in good : k <= j

\* a histogram of six phases whose sixth-ranked phase alone has a valid candidate
C4_Witness ==
    /\ pc = "period_returned" /\ a = 4 /\ n = 5 /\ r = None
    /\ Len(measured_phases) = 6
    /\ MeetsPeriodConditions(limit_denominator(measured_phases[6][1], n)[2], a, n)

\* C5: for an admissible base a of order r0 modulo 15 and a histogram over 8
\* counting qubits whose keys are exactly the phases k/r0, find_period(a, 15)
\* returns r0; for a = 7 it returns 4.
C5_IdealHistogramGivesOrder ==
    pc = "period_returned" => (r = Order(a) /\ (a = 7 => r = 4))

\* the phases 0, 1/2, 1/4, 3/4 of base 7, ranked in that order
C5_Witness ==
    /\ pc = "period_returned" /\ a = 7 /\ r = 4
    /\ Len(measured_phases) = 4
    /\ measured_phases[1][1] = <<0, 1>> /\ measured_phases[2][1] = <<1, 2>>

====
